---- MODULE Spec2Model ----
(***************************************************************************)
(* The entry/schedule storage layer of SecureThoughtVault: the in-memory   *)
(* store MemStorage (server/storage.ts) with its five record maps and id   *)
(* counters, the visibility side effects of schedule creation/deletion,    *)
(* and the read-side join of entries, schedules and contacts.              *)
(***************************************************************************)
EXTENDS Integers, Sequences, FiniteSets, TLC

VARIABLES storage, issued, inflight, hook

vars == <<storage, issued, inflight, hook>>

(***************************************************************************)
(* Bounds of the model: each caps the id counter of one record type, so    *)
(* at most that many records of the type are ever created.                 *)
(***************************************************************************)
MaxUsers == 2
MaxCategories == 4
MaxEntries == 2
MaxContacts == 4
MaxSchedules == 2

(***************************************************************************)
(* JavaScript values.  A nullable column holds Null or Some(v); a lookup   *)
(* that finds nothing yields Undefined; an omitted property of an insert   *)
(* or a partial is a field missing from the record's DOMAIN.               *)
(***************************************************************************)
Null == <<>>
Some(v) == <<v>>
Undefined == [undefined |-> TRUE]

\* insert[f] || null, for a field whose falsy value is `falsy` ("" or 0)
OrNull(insert, f, falsy) ==
  IF f \in DOMAIN insert /\ insert[f] # falsy THEN Some(insert[f]) ELSE Null

\* insert[f] || default, for a field stored without a null
OrDefault(insert, f, falsy, default) ==
  IF f \in DOMAIN insert /\ insert[f] # falsy THEN insert[f] ELSE default

\* { ...a, ...b }
Spread(a, b) ==
  [f \in (DOMAIN a) \cup (DOMAIN b) |-> IF f \in DOMAIN b THEN b[f] ELSE a[f]]

(***************************************************************************)
(* Map<number, T>: the entries in insertion order.  set() of a present key *)
(* replaces the value in place, set() of a new key appends, delete()       *)
(* removes the entry and reports whether the key was present.              *)
(***************************************************************************)
MapNew == <<>>
MapHas(m, k) == \E i \in 1..Len(m) : m[i].key = k
MapGet(m, k) ==
  IF MapHas(m, k) THEN m[CHOOSE i \in 1..Len(m) : m[i].key = k].value
  ELSE Undefined
\* Map.set that moves an updated key to the end of the iteration order
MapSet_reinsert(m, k, v) ==
  Append(SelectSeq(m, LAMBDA e : e.key # k), [key |-> k, value |-> v])

MapSet(m, k, v) ==
  IF MapHas(m, k)
  THEN [i \in 1..Len(m) |-> IF m[i].key = k THEN [key |-> k, value |-> v] ELSE m[i]]
  ELSE Append(m, [key |-> k, value |-> v])
MapDelete(m, k) == SelectSeq(m, LAMBDA e : e.key # k)
MapValues(m) == [i \in 1..Len(m) |-> m[i].value]
MapKeys(m) == {m[i].key : i \in 1..Len(m)}

(***************************************************************************)
(* MemStorage: operations as functions of the store `this`, each yielding  *)
(* the store afterwards and the value the call returns.                    *)
(***************************************************************************)
EmptyStorage ==
  [users |-> MapNew, categories |-> MapNew, entries |-> MapNew,
   contacts |-> MapNew, schedules |-> MapNew,
   userIdCounter |-> 1, categoryIdCounter |-> 1, entryIdCounter |-> 1,
   contactIdCounter |-> 1, scheduleIdCounter |-> 1]

createUser(this, insertUser) ==
  LET id == this.userIdCounter
      user == [id |-> id,
               username |-> insertUser.username,
               password |-> insertUser.password,
               displayName |-> OrNull(insertUser, "displayName", ""),
               email |-> OrNull(insertUser, "email", "")]
  IN [this |-> [this EXCEPT !.userIdCounter = id + 1,
                            !.users = MapSet(@, id, user)],
      ret |-> user]

getCategories(this, userId) ==
  SelectSeq(MapValues(this.categories), LAMBDA category : category.userId = userId)

getCategoryById(this, id) == MapGet(this.categories, id)

createCategory(this, insertCategory) ==
  LET id == this.categoryIdCounter
      category == Spread(insertCategory, [id |-> id])
  IN [this |-> [this EXCEPT !.categoryIdCounter = id + 1,
                            !.categories = MapSet(@, id, category)],
      ret |-> category]

\* deleteCategory that also drops the Entries filed under the category
deleteCategory_cascading(this, id) ==
  [this |-> [this EXCEPT !.categories = MapDelete(@, id),
                         !.entries = SelectSeq(@, LAMBDA e : e.value.categoryId # Some(id))],
   ret |-> MapHas(this.categories, id)]

deleteCategory(this, id) ==
  [this |-> [this EXCEPT !.categories = MapDelete(@, id)],
   ret |-> MapHas(this.categories, id)]

getEntries(this, userId) ==
  SelectSeq(MapValues(this.entries), LAMBDA entry : entry.userId = userId)

getEntryById(this, id) == MapGet(this.entries, id)

getEntriesByType(this, userId, type) ==
  SelectSeq(MapValues(this.entries),
            LAMBDA entry : entry.userId = userId /\ entry.type = type)

getEntriesByCategory(this, userId, categoryId) ==
  SelectSeq(MapValues(this.entries),
            LAMBDA entry : entry.userId = userId /\ entry.categoryId = Some(categoryId))

\* createEntry that takes the id from the number of stored Entries
createEntry_idFromSize(this, insertEntry, now) ==
  LET id == Len(this.entries) + 1
      entry == [id |-> id,
                userId |-> OrDefault(insertEntry, "userId", 0, 1),
                title |-> insertEntry.title,
                content |-> OrNull(insertEntry, "content", ""),
                mediaUrl |-> OrNull(insertEntry, "mediaUrl", ""),
                type |-> insertEntry.type,
                visibility |-> OrDefault(insertEntry, "visibility", "", "private"),
                categoryId |-> OrNull(insertEntry, "categoryId", 0),
                metadata |-> OrNull(insertEntry, "metadata", ""),
                createdAt |-> now]
  IN [this |-> [this EXCEPT !.entryIdCounter = @ + 1,
                            !.entries = MapSet(@, id, entry)],
      ret |-> entry]

\* createEntry whose visibility defaults to "scheduled"
createEntry_scheduledByDefault(this, insertEntry, now) ==
  LET id == this.entryIdCounter
      entry == [id |-> id,
                userId |-> OrDefault(insertEntry, "userId", 0, 1),
                title |-> insertEntry.title,
                content |-> OrNull(insertEntry, "content", ""),
                mediaUrl |-> OrNull(insertEntry, "mediaUrl", ""),
                type |-> insertEntry.type,
                visibility |-> OrDefault(insertEntry, "visibility", "", "scheduled"),
                categoryId |-> OrNull(insertEntry, "categoryId", 0),
                metadata |-> OrNull(insertEntry, "metadata", ""),
                createdAt |-> now]
  IN [this |-> [this EXCEPT !.entryIdCounter = id + 1,
                            !.entries = MapSet(@, id, entry)],
      ret |-> entry]

createEntry(this, insertEntry, now) ==
  LET id == this.entryIdCounter
      entry == [id |-> id,
                userId |-> OrDefault(insertEntry, "userId", 0, 1),
                title |-> insertEntry.title,
                content |-> OrNull(insertEntry, "content", ""),
                mediaUrl |-> OrNull(insertEntry, "mediaUrl", ""),
                type |-> insertEntry.type,
                visibility |-> OrDefault(insertEntry, "visibility", "", "private"),
                categoryId |-> OrNull(insertEntry, "categoryId", 0),
                metadata |-> OrNull(insertEntry, "metadata", ""),
                createdAt |-> now]
  IN [this |-> [this EXCEPT !.entryIdCounter = id + 1,
                            !.entries = MapSet(@, id, entry)],
      ret |-> entry]

\* updateEntry whose merge lets the stored fields win over the partial's
updateEntry_existingWins(this, id, updatedEntry) ==
  LET entry == MapGet(this.entries, id)
  IN IF entry = Undefined THEN [this |-> this, ret |-> Undefined]
     ELSE LET updated == Spread(updatedEntry, entry)
          IN [this |-> [this EXCEPT !.entries = MapSet(@, id, updated)],
              ret |-> updated]

updateEntry(this, id, updatedEntry) ==
  LET entry == MapGet(this.entries, id)
  IN IF entry = Undefined THEN [this |-> this, ret |-> Undefined]
     ELSE LET updated == Spread(entry, updatedEntry)
          IN [this |-> [this EXCEPT !.entries = MapSet(@, id, updated)],
              ret |-> updated]

RECURSIVE DeleteEach(_, _)
\* schedules.forEach(schedule => map.delete(schedule.id))
DeleteEach(m, schedules) ==
  IF schedules = <<>> THEN m
  ELSE DeleteEach(MapDelete(m, Head(schedules).id), Tail(schedules))

\* deleteEntry that reports success whenever it ran
deleteEntry_alwaysTrue(this, id) ==
  LET schedules == SelectSeq(MapValues(this.schedules),
                             LAMBDA schedule : schedule.entryId = id)
  IN [this |-> [this EXCEPT !.schedules = DeleteEach(@, schedules),
                            !.entries = MapDelete(@, id)],
      ret |-> TRUE]

deleteEntry(this, id) ==
  LET schedules == SelectSeq(MapValues(this.schedules),
                             LAMBDA schedule : schedule.entryId = id)
  IN [this |-> [this EXCEPT !.schedules = DeleteEach(@, schedules),
                            !.entries = MapDelete(@, id)],
      ret |-> MapHas(this.entries, id)]

getContacts(this, userId) ==
  SelectSeq(MapValues(this.contacts), LAMBDA contact : contact.userId = userId)

getContactById(this, id) == MapGet(this.contacts, id)

createContact(this, insertContact) ==
  LET id == this.contactIdCounter
      contact == Spread(insertContact, [id |-> id])
  IN [this |-> [this EXCEPT !.contactIdCounter = id + 1,
                            !.contacts = MapSet(@, id, contact)],
      ret |-> contact]

updateContact(this, id, updatedContact) ==
  LET contact == MapGet(this.contacts, id)
  IN IF contact = Undefined THEN [this |-> this, ret |-> Undefined]
     ELSE LET updated == Spread(contact, updatedContact)
          IN [this |-> [this EXCEPT !.contacts = MapSet(@, id, updated)],
              ret |-> updated]

deleteContact(this, id) ==
  [this |-> [this EXCEPT !.contacts = MapDelete(@, id)],
   ret |-> MapHas(this.contacts, id)]

\* getSchedules that returns every stored Schedule, whoever owns its Entry
getSchedules_unfiltered(this, userId) == MapValues(this.schedules)

getSchedules(this, userId) ==
  LET userEntries == getEntries(this, userId)
      entryIds == {userEntries[i].id : i \in 1..Len(userEntries)}
  IN SelectSeq(MapValues(this.schedules),
               LAMBDA schedule : schedule.entryId \in entryIds)

getScheduleById(this, id) == MapGet(this.schedules, id)

\* getSchedulesByEntryId that returns the last match in iteration order
getSchedulesByEntryId_findLast(this, entryId) ==
  LET values == MapValues(this.schedules)
      hits == {i \in 1..Len(values) : values[i].entryId = entryId}
  IN IF hits = {} THEN Undefined
     ELSE values[CHOOSE i \in hits : \A j \in hits : i >= j]

\* Array.prototype.find: the first match in iteration order, or undefined
getSchedulesByEntryId(this, entryId) ==
  LET values == MapValues(this.schedules)
      hits == {i \in 1..Len(values) : values[i].entryId = entryId}
  IN IF hits = {} THEN Undefined
     ELSE values[CHOOSE i \in hits : \A j \in hits : i <= j]

\* createSchedule that stores nothing when the Entry does not exist
createSchedule_requiresEntry(this, insertSchedule, now) ==
  LET id == this.scheduleIdCounter
      schedule == Spread(insertSchedule,
                         [id |-> id, status |-> "pending", createdAt |-> now])
      stored == [this EXCEPT !.scheduleIdCounter = id + 1,
                             !.schedules = MapSet(@, id, schedule)]
      entry == getEntryById(stored, insertSchedule.entryId)
  IN [this |-> IF entry # Undefined
               THEN updateEntry(stored, entry.id, [visibility |-> "scheduled"]).this
               ELSE this,
      ret |-> schedule]

createSchedule(this, insertSchedule, now) ==
  LET id == this.scheduleIdCounter
      schedule == Spread(insertSchedule,
                         [id |-> id, status |-> "pending", createdAt |-> now])
      stored == [this EXCEPT !.scheduleIdCounter = id + 1,
                             !.schedules = MapSet(@, id, schedule)]
      entry == getEntryById(stored, insertSchedule.entryId)
  IN [this |-> IF entry # Undefined
               THEN updateEntry(stored, entry.id, [visibility |-> "scheduled"]).this
               ELSE stored,
      ret |-> schedule]

updateSchedule(this, id, updatedSchedule) ==
  LET schedule == MapGet(this.schedules, id)
  IN IF schedule = Undefined THEN [this |-> this, ret |-> Undefined]
     ELSE LET updated == Spread(schedule, updatedSchedule)
          IN [this |-> [this EXCEPT !.schedules = MapSet(@, id, updated)],
              ret |-> updated]

deleteSchedule(this, id) ==
  LET schedule == MapGet(this.schedules, id)
      entry == IF schedule # Undefined
               THEN getEntryById(this, schedule.entryId) ELSE Undefined
      reset == IF entry # Undefined
               THEN updateEntry(this, entry.id, [visibility |-> "private"]).this
               ELSE this
  IN [this |-> [reset EXCEPT !.schedules = MapDelete(@, id)],
      ret |-> MapHas(reset.schedules, id)]

\* getEntriesWithSchedules that emits no view record for an Entry without Schedule
getEntriesWithSchedules_scheduledOnly(this, userId) ==
  LET entries == SelectSeq(getEntries(this, userId),
                           LAMBDA entry : getSchedulesByEntryId(this, entry.id) # Undefined)
      View(entry) ==
        LET schedule == getSchedulesByEntryId(this, entry.id)
            contact == getContactById(this, schedule.contactId)
        IN Spread(entry, [schedule |-> Spread(schedule, [contact |-> contact])])
  IN [i \in 1..Len(entries) |-> View(entries[i])]

getEntriesWithSchedules(this, userId) ==
  LET entries == getEntries(this, userId)
      View(entry) ==
        LET schedule == getSchedulesByEntryId(this, entry.id)
            contact == IF schedule # Undefined
                       THEN getContactById(this, schedule.contactId)
                       ELSE Undefined
        IN Spread(entry,
                  [schedule |-> IF schedule # Undefined
                                THEN Spread(schedule, [contact |-> contact])
                                ELSE Undefined])
  IN [i \in 1..Len(entries) |-> View(entries[i])]

getScheduledEntries(this, userId) ==
  SelectSeq(getEntriesWithSchedules(this, userId),
            LAMBDA entry : entry.schedule # Undefined)

(***************************************************************************)
(* The constructor: five empty maps, counters at 1, then the demo user,    *)
(* three categories and three contacts through the create operations.      *)
(***************************************************************************)
SeedUser ==
  [username |-> "demo", password |-> "password",
   displayName |-> "Demo User", email |-> "demo@example.com"]
\* the seeded Categories in alphabetical order
SeedCategories_alphabetical ==
  << [userId |-> 1, name |-> "Ideas"],
     [userId |-> 1, name |-> "Personal"],
     [userId |-> 1, name |-> "Work"] >>
SeedCategories ==
  << [userId |-> 1, name |-> "Personal"],
     [userId |-> 1, name |-> "Work"],
     [userId |-> 1, name |-> "Ideas"] >>
SeedContacts ==
  << [userId |-> 1, name |-> "Myself", phoneNumber |-> "", email |-> "demo@example.com"],
     [userId |-> 1, name |-> "Mom", phoneNumber |-> "555-123-4567", email |-> "mom@example.com"],
     [userId |-> 1, name |-> "Partner", phoneNumber |-> "555-987-6543", email |-> "partner@example.com"] >>

constructor ==
  LET u1 == createUser(EmptyStorage, SeedUser)
      c1 == createCategory(u1.this, SeedCategories[1])
      c2 == createCategory(c1.this, SeedCategories[2])
      c3 == createCategory(c2.this, SeedCategories[3])
      k1 == createContact(c3.this, SeedContacts[1])
      k2 == createContact(k1.this, SeedContacts[2])
      k3 == createContact(k2.this, SeedContacts[3])
  IN [this |-> k3.this,
      issued |-> [User |-> <<u1.ret.id>>,
                  Category |-> <<c1.ret.id, c2.ret.id, c3.ret.id>>,
                  Entry |-> <<>>,
                  Contact |-> <<k1.ret.id, k2.ret.id, k3.ret.id>>,
                  Schedule |-> <<>>]]

(***************************************************************************)
(* Inputs of the operations.  Entry and schedule ids range over the ids    *)
(* the counters can issue within the bounds and one id never issued; the   *)
(* categories and contacts are addressed through the last id their counter *)
(* can issue within the bounds and an id never issued.                     *)
(***************************************************************************)
Times == {10}
DeliveryDates == {20}

InsertUsers == {[username |-> "alice", password |-> "secret"]}

InsertCategories == {[userId |-> 2, name |-> "Travel"]}

InsertEntries ==
  { [title |-> "Hi", type |-> "text", content |-> "hello"],
    [userId |-> 2, title |-> "Memo", type |-> "audio", mediaUrl |-> "blob:memo",
     visibility |-> "scheduled", categoryId |-> MaxCategories] }

InsertContacts == {[userId |-> 2, name |-> "Bob", phoneNumber |-> "555-1234"]}

InsertSchedules ==
  { [entryId |-> e, contactId |-> MaxContacts, deliveryDate |-> d] :
      e \in 1..MaxEntries, d \in DeliveryDates }

EntryPartials ==
  { [visibility |-> "scheduled"],
    [visibility |-> "private"],
    [title |-> "Edited", type |-> "video", createdAt |-> 0],
    [id |-> 2] }

ContactPartials == { [name |-> "Mum", email |-> "mum@example.com"] }

SchedulePartials ==
  { [deliveryDate |-> 30, reminderEnabled |-> TRUE, status |-> "sent"],
    [entryId |-> 2],
    [id |-> 2] }

CategoryIdInputs == {MaxCategories, MaxCategories + 1}
EntryIdInputs == 1..(MaxEntries + 1)
ContactIdInputs == {MaxContacts, MaxContacts + 1}
ScheduleIdInputs == 1..(MaxSchedules + 1)

(***************************************************************************)
(* useMediaRecorder (client hook): the React state of the hook, its two    *)
(* refs, the values the functions of the last render closed over, the      *)
(* native MediaRecorder, and the startRecording call in progress.          *)
(***************************************************************************)
MaxChunks == 2

useMediaRecorder ==
  [mediaStream |-> Null, mediaBlobs |-> 0, recordingState |-> "inactive",
   recordedBlob |-> Null, recordedUrl |-> Null, error |-> Null,
   mediaRecorderRef |-> Null, mediaChunksRef |-> 0,
   rendered |-> [mediaStream |-> Null, recordingState |-> "inactive",
                 recordedUrl |-> Null],
   recorder |-> [state |-> "none", events |-> <<>>],
   call |-> [pc |-> "idle"]]

(***************************************************************************)
(* Store operations in flight at once: `calls` holds one record per call   *)
(* made since the store was last quiet, with the point it has reached,     *)
(* its locals and, once it has returned, its value; `base` is the store as *)
(* it was when the first of them was made.                                 *)
(***************************************************************************)
NoCalls == [calls |-> <<>>, jobs |-> <<>>, base |-> EmptyStorage]

(***************************************************************************)
(* The state: `storage` is the exported MemStorage instance; `issued`      *)
(* records the ids the create calls of each type have returned, in call    *)
(* order.  Reads leave the store alone and appear as operators only.       *)
(***************************************************************************)
Init ==
  /\ storage = constructor.this
  /\ issued = constructor.issued
  /\ inflight = NoCalls
  /\ hook = useMediaRecorder

Call_createUser ==
  \E insertUser \in InsertUsers :
    /\ UNCHANGED <<inflight, hook>>
    /\ storage.userIdCounter <= MaxUsers
    /\ LET r == createUser(storage, insertUser)
       IN /\ storage' = r.this
          /\ issued' = [issued EXCEPT !.User = Append(@, r.ret.id)]

Call_createCategory ==
  \E insertCategory \in InsertCategories :
    /\ UNCHANGED <<inflight, hook>>
    /\ storage.categoryIdCounter <= MaxCategories
    /\ LET r == createCategory(storage, insertCategory)
       IN /\ storage' = r.this
          /\ issued' = [issued EXCEPT !.Category = Append(@, r.ret.id)]

Call_deleteCategory ==
  \E id \in CategoryIdInputs :
    /\ UNCHANGED <<inflight, hook>>
    /\ storage' = deleteCategory(storage, id).this
    /\ UNCHANGED issued

Call_createEntry ==
  \E insertEntry \in InsertEntries, now \in Times :
    /\ UNCHANGED <<inflight, hook>>
    /\ storage.entryIdCounter <= MaxEntries
    /\ LET r == createEntry(storage, insertEntry, now)
       IN /\ storage' = r.this
          /\ issued' = [issued EXCEPT !.Entry = Append(@, r.ret.id)]

Call_updateEntry ==
  \E id \in EntryIdInputs, updatedEntry \in EntryPartials :
    /\ UNCHANGED <<inflight, hook>>
    /\ storage' = updateEntry(storage, id, updatedEntry).this
    /\ UNCHANGED issued

Call_deleteEntry ==
  \E id \in EntryIdInputs :
    /\ UNCHANGED <<inflight, hook>>
    /\ storage' = deleteEntry(storage, id).this
    /\ UNCHANGED issued

Call_createContact ==
  \E insertContact \in InsertContacts :
    /\ UNCHANGED <<inflight, hook>>
    /\ storage.contactIdCounter <= MaxContacts
    /\ LET r == createContact(storage, insertContact)
       IN /\ storage' = r.this
          /\ issued' = [issued EXCEPT !.Contact = Append(@, r.ret.id)]

Call_updateContact ==
  \E id \in ContactIdInputs, updatedContact \in ContactPartials :
    /\ UNCHANGED <<inflight, hook>>
    /\ storage' = updateContact(storage, id, updatedContact).this
    /\ UNCHANGED issued

Call_deleteContact ==
  \E id \in ContactIdInputs :
    /\ UNCHANGED <<inflight, hook>>
    /\ storage' = deleteContact(storage, id).this
    /\ UNCHANGED issued

Call_createSchedule ==
  \E insertSchedule \in InsertSchedules, now \in Times :
    /\ UNCHANGED <<inflight, hook>>
    /\ storage.scheduleIdCounter <= MaxSchedules
    /\ LET r == createSchedule(storage, insertSchedule, now)
       IN /\ storage' = r.this
          /\ issued' = [issued EXCEPT !.Schedule = Append(@, r.ret.id)]

Call_updateSchedule ==
  \E id \in ScheduleIdInputs, updatedSchedule \in SchedulePartials :
    /\ UNCHANGED <<inflight, hook>>
    /\ storage' = updateSchedule(storage, id, updatedSchedule).this
    /\ UNCHANGED issued

Call_deleteSchedule ==
  \E id \in ScheduleIdInputs :
    /\ UNCHANGED <<inflight, hook>>
    /\ storage' = deleteSchedule(storage, id).this
    /\ UNCHANGED issued

Next ==
  \/ Call_createUser
  \/ Call_createCategory
  \/ Call_deleteCategory
  \/ Call_createEntry
  \/ Call_updateEntry
  \/ Call_deleteEntry
  \/ Call_createContact
  \/ Call_updateContact
  \/ Call_deleteContact
  \/ Call_createSchedule
  \/ Call_updateSchedule
  \/ Call_deleteSchedule

Spec == Init /\ [][Next]_vars

(***************************************************************************)
(* The API boundary (server/routes.ts).  A path parameter is the sequence  *)
(* of its characters; parseInt skips leading blanks, takes an optional     *)
(* sign and the longest run of decimal digits after it, and yields NaN     *)
(* when that run is empty (no parameter of the requests has a radix prefix).   *)
(***************************************************************************)
NaN == <<>>
isNaN(n) == n = NaN

IsDigit(c) == c \in {"0", "1", "2", "3", "4", "5", "6", "7", "8", "9"}

RECURSIVE DigitRun(_, _, _)
\* the value of the leading digits of str, none read so far when acc = NaN
DigitRun(str, acc, radix) ==
  IF str = <<>> \/ ~IsDigit(Head(str)) THEN acc
  ELSE DigitRun(Tail(str),
                Some((IF acc = NaN THEN 0 ELSE acc[1]) * radix
                       + (CHOOSE d \in 0..9 : ToString(d) = Head(str))),
                radix)

RECURSIVE parseInt(_)
parseInt(str) ==
  IF str = <<>> THEN NaN
  ELSE IF Head(str) = " " THEN parseInt(Tail(str))
  ELSE IF Head(str) = "-"
       THEN LET n == DigitRun(Tail(str), NaN, 10)
            IN IF n = NaN THEN NaN ELSE Some(0 - n[1])
  ELSE IF Head(str) = "+" THEN DigitRun(Tail(str), NaN, 10)
  ELSE DigitRun(str, NaN, 10)

(***************************************************************************)
(* The insert schemas (shared/schema.ts): parse keeps the picked columns,  *)
(* drops every other key, and fails when a notNull column is missing or    *)
(* an enum column holds a value outside its enum.  Values of a wrong JSON  *)
(* type are not among the bodies of this model.                            *)
(***************************************************************************)
entryTypes == {"text", "audio", "video"}
visibilityTypes == {"private", "scheduled"}

Pick(body, columns) == [f \in (DOMAIN body) \cap columns |-> body[f]]

insertCategorySchema(body) ==
  [success |-> "name" \in DOMAIN body,
   data |-> Pick(body, {"userId", "name"})]

insertEntrySchema(body) ==
  [success |-> /\ "title" \in DOMAIN body
               /\ "type" \in DOMAIN body /\ body.type \in entryTypes
               /\ "visibility" \in DOMAIN body => body.visibility \in visibilityTypes,
   data |-> Pick(body, {"userId", "title", "content", "mediaUrl", "type",
                        "visibility", "categoryId", "metadata"})]

insertContactSchema(body) ==
  [success |-> "name" \in DOMAIN body,
   data |-> Pick(body, {"userId", "name", "phoneNumber", "email"})]

insertScheduleSchema(body) ==
  [success |-> "deliveryDate" \in DOMAIN body,
   data |-> Pick(body, {"entryId", "contactId", "deliveryDate", "reminderEnabled"})]

(***************************************************************************)
(* The routes, as functions of the store: the store afterwards, the        *)
(* response (status and JSON body; a 204 has no body) and the store        *)
(* operations the handler called.  Every route acts for user 1.            *)
(***************************************************************************)
Answer(this, status, json, calls) ==
  [this |-> this, res |-> [status |-> status, json |-> json], calls |-> calls]
NoContent(this, calls) ==
  [this |-> this, res |-> [status |-> 204], calls |-> calls]
InvalidId(this) == Answer(this, 400, [error |-> "Invalid ID"], <<>>)

router_post_categories(this, body) ==
  LET parsed == insertCategorySchema(Spread(body, [userId |-> 1]))
      r == createCategory(this, parsed.data)
  IN IF ~parsed.success THEN Answer(this, 400, [error |-> "ZodError"], <<>>)
     ELSE Answer(r.this, 201, r.ret, <<"createCategory">>)

router_delete_categories(this, param) ==
  LET id == parseInt(param)
      r == deleteCategory(this, id[1])
  IN IF isNaN(id) THEN InvalidId(this)
     ELSE IF ~r.ret
          THEN Answer(r.this, 404, [error |-> "Category not found"], <<"deleteCategory">>)
          ELSE NoContent(r.this, <<"deleteCategory">>)

\* GET /entries that looks at the categoryId parameter before the type
router_get_entries_categoryFirst(this, query) ==
  LET type == IF "type" \in DOMAIN query THEN query.type ELSE ""
      given == "categoryId" \in DOMAIN query /\ query.categoryId # <<>>
      categoryId == parseInt(query.categoryId)
  IN IF given /\ ~isNaN(categoryId) /\ categoryId[1] # 0
     THEN Answer(this, 200, getEntriesByCategory(this, 1, categoryId[1]),
                 <<"getEntriesByCategory">>)
     ELSE IF type # ""
          THEN Answer(this, 200, getEntriesByType(this, 1, type), <<"getEntriesByType">>)
          ELSE Answer(this, 200, getEntries(this, 1), <<"getEntries">>)

router_get_entries(this, query) ==
  LET type == IF "type" \in DOMAIN query THEN query.type ELSE ""
      given == "categoryId" \in DOMAIN query /\ query.categoryId # <<>>
      categoryId == parseInt(query.categoryId)
  IN IF type # ""
     THEN Answer(this, 200, getEntriesByType(this, 1, type), <<"getEntriesByType">>)
     ELSE IF given /\ ~isNaN(categoryId) /\ categoryId[1] # 0
          THEN Answer(this, 200, getEntriesByCategory(this, 1, categoryId[1]),
                      <<"getEntriesByCategory">>)
          ELSE Answer(this, 200, getEntries(this, 1), <<"getEntries">>)

router_get_entry(this, param) ==
  LET id == parseInt(param)
      entry == getEntryById(this, id[1])
  IN IF isNaN(id) THEN InvalidId(this)
     ELSE IF entry = Undefined
          THEN Answer(this, 404, [error |-> "Entry not found"], <<"getEntryById">>)
          ELSE Answer(this, 200, entry, <<"getEntryById">>)

\* POST /entries that takes the next id before it validates the body
router_post_entries_idBeforeParse(this, body, now) ==
  LET parsed == insertEntrySchema(Spread(body, [userId |-> 1]))
      r == createEntry(this, parsed.data, now)
  IN IF ~parsed.success
     THEN Answer([this EXCEPT !.entryIdCounter = @ + 1], 400, [error |-> "ZodError"], <<>>)
     ELSE Answer(r.this, 201, r.ret, <<"createEntry">>)

router_post_entries(this, body, now) ==
  LET parsed == insertEntrySchema(Spread(body, [userId |-> 1]))
      r == createEntry(this, parsed.data, now)
  IN IF ~parsed.success THEN Answer(this, 400, [error |-> "ZodError"], <<>>)
     ELSE Answer(r.this, 201, r.ret, <<"createEntry">>)

router_patch_entries(this, param, body) ==
  LET id == parseInt(param)
      r == updateEntry(this, id[1], body)
  IN IF isNaN(id) THEN InvalidId(this)
     ELSE IF r.ret = Undefined
          THEN Answer(r.this, 404, [error |-> "Entry not found"], <<"updateEntry">>)
          ELSE Answer(r.this, 200, r.ret, <<"updateEntry">>)

router_delete_entries(this, param) ==
  LET id == parseInt(param)
      r == deleteEntry(this, id[1])
  IN IF isNaN(id) THEN InvalidId(this)
     ELSE IF ~r.ret
          THEN Answer(r.this, 404, [error |-> "Entry not found"], <<"deleteEntry">>)
          ELSE NoContent(r.this, <<"deleteEntry">>)

router_post_contacts(this, body) ==
  LET parsed == insertContactSchema(Spread(body, [userId |-> 1]))
      r == createContact(this, parsed.data)
  IN IF ~parsed.success THEN Answer(this, 400, [error |-> "ZodError"], <<>>)
     ELSE Answer(r.this, 201, r.ret, <<"createContact">>)

router_patch_contacts(this, param, body) ==
  LET id == parseInt(param)
      r == updateContact(this, id[1], body)
  IN IF isNaN(id) THEN InvalidId(this)
     ELSE IF r.ret = Undefined
          THEN Answer(r.this, 404, [error |-> "Contact not found"], <<"updateContact">>)
          ELSE Answer(r.this, 200, r.ret, <<"updateContact">>)

router_delete_contacts(this, param) ==
  LET id == parseInt(param)
      r == deleteContact(this, id[1])
  IN IF isNaN(id) THEN InvalidId(this)
     ELSE IF ~r.ret
          THEN Answer(r.this, 404, [error |-> "Contact not found"], <<"deleteContact">>)
          ELSE NoContent(r.this, <<"deleteContact">>)

router_post_schedules(this, body, now) ==
  LET parsed == insertScheduleSchema(body)
      r == createSchedule(this, parsed.data, now)
  IN IF ~parsed.success THEN Answer(this, 400, [error |-> "ZodError"], <<>>)
     ELSE Answer(r.this, 201, r.ret, <<"createSchedule">>)

router_patch_schedules(this, param, body) ==
  LET id == parseInt(param)
      r == updateSchedule(this, id[1], body)
  IN IF isNaN(id) THEN InvalidId(this)
     ELSE IF r.ret = Undefined
          THEN Answer(r.this, 404, [error |-> "Schedule not found"], <<"updateSchedule">>)
          ELSE Answer(r.this, 200, r.ret, <<"updateSchedule">>)

router_delete_schedules(this, param) ==
  LET id == parseInt(param)
      r == deleteSchedule(this, id[1])
  IN IF isNaN(id) THEN InvalidId(this)
     ELSE IF ~r.ret
          THEN Answer(r.this, 404, [error |-> "Schedule not found"], <<"deleteSchedule">>)
          ELSE NoContent(r.this, <<"deleteSchedule">>)

(***************************************************************************)
(* Requests.  The path parameters name the ids the counters can issue      *)
(* within the bounds, malformed ids, and ids with text after the digits.   *)
(***************************************************************************)
CategoryIdParams == { <<"4">>, <<"5">>, <<"4", ".", "5">>, <<"a", "b", "c">> }
EntryIdParams == { <<"1">>, <<"2">>, <<"3">>, <<"1", "a">>, <<"a", "b", "c">> }
ContactIdParams == { <<"4">>, <<"5">>, <<" ", "4">>, <<"x">> }
ScheduleIdParams == { <<"1">>, <<"2">>, <<"3">>, <<"-", "1">>, <<"2", "x">>, <<"i", "d">> }

PostCategoryBodies ==
  { [name |-> "Travel", userId |-> 2, id |-> 9], [userId |-> 2] }

PostEntryBodies ==
  { [title |-> "Hi", type |-> "text", content |-> "hello"],
    [title |-> "Memo", type |-> "audio", mediaUrl |-> "blob:memo", userId |-> 2,
     id |-> 9, categoryId |-> MaxCategories],
    [type |-> "text", content |-> "untitled"],
    [title |-> "Pic", type |-> "image"] }

PostContactBodies ==
  { [name |-> "Bob", phoneNumber |-> "555-1234", userId |-> 2],
    [email |-> "nobody@example.com"] }

PostScheduleBodies ==
  { [entryId |-> e, contactId |-> MaxContacts, deliveryDate |-> d,
     status |-> "sent", id |-> 9] : e \in 1..MaxEntries, d \in DeliveryDates }
  \cup { [entryId |-> 1, contactId |-> MaxContacts] }

PatchEntryBodies ==
  { [title |-> "Edited", visibility |-> "private"], [userId |-> 2] }

PatchContactBodies == { [name |-> "Mum", email |-> "mum@example.com"] }

PatchScheduleBodies == { [deliveryDate |-> 30, reminderEnabled |-> TRUE] }

EntryQueries ==
  { [sort |-> "newest"], [type |-> "audio"], [type |-> "text", categoryId |-> <<"4">>],
    [categoryId |-> <<"4">>], [categoryId |-> <<"5">>], [categoryId |-> <<"4", "x">>],
    [categoryId |-> <<"0">>], [categoryId |-> <<"a", "b", "c">>],
    [type |-> "", categoryId |-> <<"4">>], [categoryId |-> <<>>] }

(***************************************************************************)
(* The store behind the API: every step is one request to a route that     *)
(* can change the store; the GET routes appear as operators only.          *)
(***************************************************************************)
Created(r, type) ==
  IF r.res.status = 201 THEN [issued EXCEPT ![type] = Append(@, r.res.json.id)]
  ELSE issued

Request_post_categories ==
  \E body \in PostCategoryBodies :
    /\ storage.categoryIdCounter <= MaxCategories
    /\ LET r == router_post_categories(storage, body)
       IN storage' = r.this /\ issued' = Created(r, "Category")
    /\ UNCHANGED <<inflight, hook>>

Request_delete_categories ==
  \E param \in CategoryIdParams :
    /\ storage' = router_delete_categories(storage, param).this
    /\ UNCHANGED <<issued, inflight, hook>>

Request_post_entries ==
  \E body \in PostEntryBodies, now \in Times :
    /\ storage.entryIdCounter <= MaxEntries
    /\ LET r == router_post_entries(storage, body, now)
       IN storage' = r.this /\ issued' = Created(r, "Entry")
    /\ UNCHANGED <<inflight, hook>>

Request_patch_entries ==
  \E param \in EntryIdParams, body \in PatchEntryBodies :
    /\ storage' = router_patch_entries(storage, param, body).this
    /\ UNCHANGED <<issued, inflight, hook>>

Request_delete_entries ==
  \E param \in EntryIdParams :
    /\ storage' = router_delete_entries(storage, param).this
    /\ UNCHANGED <<issued, inflight, hook>>

Request_post_contacts ==
  \E body \in PostContactBodies :
    /\ storage.contactIdCounter <= MaxContacts
    /\ LET r == router_post_contacts(storage, body)
       IN storage' = r.this /\ issued' = Created(r, "Contact")
    /\ UNCHANGED <<inflight, hook>>

Request_patch_contacts ==
  \E param \in ContactIdParams, body \in PatchContactBodies :
    /\ storage' = router_patch_contacts(storage, param, body).this
    /\ UNCHANGED <<issued, inflight, hook>>

Request_delete_contacts ==
  \E param \in ContactIdParams :
    /\ storage' = router_delete_contacts(storage, param).this
    /\ UNCHANGED <<issued, inflight, hook>>

Request_post_schedules ==
  \E body \in PostScheduleBodies, now \in Times :
    /\ storage.scheduleIdCounter <= MaxSchedules
    /\ LET r == router_post_schedules(storage, body, now)
       IN storage' = r.this /\ issued' = Created(r, "Schedule")
    /\ UNCHANGED <<inflight, hook>>

Request_patch_schedules ==
  \E param \in ScheduleIdParams, body \in PatchScheduleBodies :
    /\ storage' = router_patch_schedules(storage, param, body).this
    /\ UNCHANGED <<issued, inflight, hook>>

Request_delete_schedules ==
  \E param \in ScheduleIdParams :
    /\ storage' = router_delete_schedules(storage, param).this
    /\ UNCHANGED <<issued, inflight, hook>>

ApiNext ==
  \/ Request_post_categories
  \/ Request_delete_categories
  \/ Request_post_entries
  \/ Request_patch_entries
  \/ Request_delete_entries
  \/ Request_post_contacts
  \/ Request_patch_contacts
  \/ Request_delete_contacts
  \/ Request_post_schedules
  \/ Request_patch_schedules
  \/ Request_delete_schedules

ApiSpec == Init /\ [][ApiNext]_vars

(***************************************************************************)
(* The async methods of MemStorage, one step per stretch of code between   *)
(* two awaits.  A method runs up to its first await when it is called; a   *)
(* method it awaits (getEntryById, updateEntry, getSchedulesByEntryId,     *)
(* getContactById, getEntries) has no await of its own, so it reads or     *)
(* writes the maps at the moment it is called, before the caller is        *)
(* suspended.  createEntry, deleteEntry and updateSchedule contain no      *)
(* await and run in one stretch.                                           *)
(***************************************************************************)
MaxInFlight == 2

Done(ret) == [pc |-> "done", ret |-> ret]

\* createSchedule up to `await this.getEntryById(insertSchedule.entryId)`
createSchedule_begin(this, insertSchedule, now) ==
  LET id == this.scheduleIdCounter
      schedule == Spread(insertSchedule,
                         [id |-> id, status |-> "pending", createdAt |-> now])
      stored == [this EXCEPT !.scheduleIdCounter = id + 1,
                             !.schedules = MapSet(@, id, schedule)]
  IN [this |-> stored,
      call |-> [pc |-> "entry", schedule |-> schedule,
                entry |-> getEntryById(stored, insertSchedule.entryId)]]

\* from `if (entry)` to the return; updateEntry runs when it is called
createSchedule_resume(this, call) ==
  IF call.pc = "entry" /\ call.entry # Undefined
  THEN [this |-> updateEntry(this, call.entry.id, [visibility |-> "scheduled"]).this,
        call |-> [call EXCEPT !.pc = "return"]]
  ELSE [this |-> this, call |-> Done(call.schedule)]

\* deleteSchedule up to `await this.getEntryById(schedule.entryId)`
deleteSchedule_begin(this, id) ==
  LET schedule == MapGet(this.schedules, id)
  IN IF schedule # Undefined
     THEN [this |-> this,
           call |-> [pc |-> "entry", id |-> id,
                     entry |-> getEntryById(this, schedule.entryId)]]
     ELSE [this |-> [this EXCEPT !.schedules = MapDelete(@, id)],
           call |-> Done(MapHas(this.schedules, id))]

deleteSchedule_resume(this, call) ==
  IF call.pc = "entry" /\ call.entry # Undefined
  THEN [this |-> updateEntry(this, call.entry.id, [visibility |-> "private"]).this,
        call |-> [call EXCEPT !.pc = "delete"]]
  ELSE [this |-> [this EXCEPT !.schedules = MapDelete(@, call.id)],
        call |-> Done(MapHas(this.schedules, call.id))]

\* getEntriesWithSchedules up to `await this.getEntries(userId)`
getEntriesWithSchedules_begin(this, userId) ==
  [this |-> this,
   call |-> [pc |-> "entries", entries |-> getEntries(this, userId), result |-> <<>>]]

\* result.push(...) and the next turn of the loop, up to its first await
getEntriesWithSchedules_push(this, call, schedule, contact) ==
  LET entry == Head(call.entries)
      result == Append(call.result,
                       Spread(entry,
                              [schedule |-> IF schedule # Undefined
                                            THEN Spread(schedule, [contact |-> contact])
                                            ELSE Undefined]))
      rest == Tail(call.entries)
  IN IF rest = <<>> THEN Done(result)
     ELSE [pc |-> "schedule", entries |-> rest, result |-> result,
           schedule |-> getSchedulesByEntryId(this, Head(rest).id)]

getEntriesWithSchedules_resume(this, call) ==
  [this |-> this,
   call |->
     IF call.pc = "entries"
     THEN IF call.entries = <<>> THEN Done(call.result)
          ELSE [pc |-> "schedule", entries |-> call.entries, result |-> call.result,
                schedule |-> getSchedulesByEntryId(this, Head(call.entries).id)]
     ELSE IF call.pc = "schedule"
     THEN IF call.schedule # Undefined
          THEN [pc |-> "contact", entries |-> call.entries, result |-> call.result,
                schedule |-> call.schedule,
                contact |-> getContactById(this, call.schedule.contactId)]
          ELSE getEntriesWithSchedules_push(this, call, Undefined, Undefined)
     ELSE getEntriesWithSchedules_push(this, call, call.schedule, call.contact)]

(***************************************************************************)
(* Calls in flight.  A call is started at any time while fewer than        *)
(* MaxInFlight calls have been made since the store was last quiet.  Every *)
(* promise a method awaits is already settled, so the continuation of a    *)
(* suspended call is a job at the back of the microtask queue: jobs run in *)
(* the order they were queued, the caller starting further calls between   *)
(* them.  Once all calls have returned the caller takes the results.       *)
(***************************************************************************)

Started(op, call) ==
  [calls |-> Append(inflight.calls, [op |-> op, call |-> call]),
   jobs |-> IF call.pc = "done" THEN inflight.jobs
            ELSE Append(inflight.jobs, Len(inflight.calls) + 1),
   base |-> IF inflight.calls = <<>> THEN storage ELSE inflight.base]

CanStart == Len(inflight.calls) < MaxInFlight

Start_createEntry ==
  \E insertEntry \in {[title |-> "Hi", type |-> "text", content |-> "hello"]}, now \in Times :
    /\ CanStart /\ storage.entryIdCounter <= MaxEntries
    /\ LET r == createEntry(storage, insertEntry, now)
       IN /\ storage' = r.this
          /\ issued' = [issued EXCEPT !.Entry = Append(@, r.ret.id)]
          /\ inflight' = Started([name |-> "createEntry", insertEntry |-> insertEntry,
                                   now |-> now], Done(r.ret))
    /\ UNCHANGED hook

Start_deleteEntry ==
  \E id \in EntryIdInputs :
    /\ CanStart
    /\ LET r == deleteEntry(storage, id)
       IN /\ storage' = r.this
          /\ inflight' = Started([name |-> "deleteEntry", id |-> id], Done(r.ret))
    /\ UNCHANGED <<issued, hook>>

Start_createSchedule ==
  \E insertSchedule \in InsertSchedules, now \in Times :
    /\ CanStart /\ storage.scheduleIdCounter <= MaxSchedules
    /\ LET r == createSchedule_begin(storage, insertSchedule, now)
       IN /\ storage' = r.this
          /\ issued' = [issued EXCEPT !.Schedule = Append(@, r.call.schedule.id)]
          /\ inflight' = Started([name |-> "createSchedule",
                                   insertSchedule |-> insertSchedule, now |-> now], r.call)
    /\ UNCHANGED hook

Start_deleteSchedule ==
  \E id \in ScheduleIdInputs :
    /\ CanStart
    /\ LET r == deleteSchedule_begin(storage, id)
       IN /\ storage' = r.this
          /\ inflight' = Started([name |-> "deleteSchedule", id |-> id], r.call)
    /\ UNCHANGED <<issued, hook>>

Start_updateSchedule ==
  \E id \in ScheduleIdInputs, updatedSchedule \in SchedulePartials :
    /\ CanStart
    /\ LET r == updateSchedule(storage, id, updatedSchedule)
       IN /\ storage' = r.this
          /\ inflight' = Started([name |-> "updateSchedule", id |-> id,
                                   updatedSchedule |-> updatedSchedule], Done(r.ret))
    /\ UNCHANGED <<issued, hook>>

Start_getEntriesWithSchedules ==
  /\ CanStart
  /\ LET r == getEntriesWithSchedules_begin(storage, 1)
     IN inflight' = Started([name |-> "getEntriesWithSchedules", userId |-> 1], r.call)
  /\ UNCHANGED <<storage, issued, hook>>

\* the job at the front of the queue continues a call of this method
NextJob(name) ==
  inflight.jobs # <<>> /\ inflight.calls[Head(inflight.jobs)].op.name = name

Resumed(call) ==
  LET i == Head(inflight.jobs)
  IN [inflight EXCEPT !.calls[i].call = call,
                      !.jobs = IF call.pc = "done" THEN Tail(@) ELSE Append(Tail(@), i)]

Resume_createSchedule ==
  /\ NextJob("createSchedule")
  /\ LET r == createSchedule_resume(storage, inflight.calls[Head(inflight.jobs)].call)
     IN storage' = r.this /\ inflight' = Resumed(r.call)
  /\ UNCHANGED <<issued, hook>>

Resume_deleteSchedule ==
  /\ NextJob("deleteSchedule")
  /\ LET r == deleteSchedule_resume(storage, inflight.calls[Head(inflight.jobs)].call)
     IN storage' = r.this /\ inflight' = Resumed(r.call)
  /\ UNCHANGED <<issued, hook>>

Resume_getEntriesWithSchedules ==
  /\ NextJob("getEntriesWithSchedules")
  /\ LET r == getEntriesWithSchedules_resume(storage, inflight.calls[Head(inflight.jobs)].call)
     IN storage' = r.this /\ inflight' = Resumed(r.call)
  /\ UNCHANGED <<issued, hook>>

AllReturned ==
  /\ inflight.calls # <<>>
  /\ \A i \in 1..Len(inflight.calls) : inflight.calls[i].call.pc = "done"

\* the caller has the results of all its calls
Settle ==
  /\ AllReturned
  /\ inflight' = NoCalls
  /\ UNCHANGED <<storage, issued, hook>>

AsyncNext ==
  \/ Start_createEntry
  \/ Start_deleteEntry
  \/ Start_createSchedule
  \/ Start_deleteSchedule
  \/ Start_updateSchedule
  \/ Start_getEntriesWithSchedules
  \/ Resume_createSchedule
  \/ Resume_deleteSchedule
  \/ Resume_getEntriesWithSchedules
  \/ Settle

AsyncSpec == Init /\ [][AsyncNext]_vars

(***************************************************************************)
(* The same calls made one after the other, each running to its return     *)
(* before the next is made.                                                *)
(***************************************************************************)
Atomic(this, op) ==
  CASE op.name = "createEntry" -> createEntry(this, op.insertEntry, op.now)
    [] op.name = "deleteEntry" -> deleteEntry(this, op.id)
    [] op.name = "createSchedule" -> createSchedule(this, op.insertSchedule, op.now)
    [] op.name = "deleteSchedule" -> deleteSchedule(this, op.id)
    [] op.name = "updateSchedule" -> updateSchedule(this, op.id, op.updatedSchedule)
    [] op.name = "getEntriesWithSchedules" ->
         [this |-> this, ret |-> getEntriesWithSchedules(this, op.userId)]

RECURSIVE Serial(_, _)
Serial(this, ops) ==
  IF ops = <<>> THEN [this |-> this, rets |-> <<>>]
  ELSE LET first == Atomic(this, Head(ops))
           rest == Serial(first.this, Tail(ops))
       IN [this |-> rest.this, rets |-> <<first.ret>> \o rest.rets]

Orders(n) == {order \in [1..n -> 1..n] : \A i, j \in 1..n : order[i] = order[j] => i = j}

(***************************************************************************)
(* useMediaRecorder.  The functions the hook returns are made anew at      *)
(* every render and read mediaStream, recordingState and recordedUrl as    *)
(* that render saw them (hook.rendered); a set... call changes the state   *)
(* the next render will see.  hook.call is the startRecording or           *)
(* requestPermissions call in flight, with the values its function was     *)
(* made with.  hook.recorder is the MediaRecorder last created: its state  *)
(* attribute and the events queued for its listeners.                      *)
(***************************************************************************)
\* requestPermissions up to `await navigator.mediaDevices.getUserMedia(constraints)`
requestPermissions_begin(h, closure, caller, mediaDevices) ==
  IF mediaDevices
  THEN [h EXCEPT !.call = [pc |-> "getUserMedia", caller |-> caller,
                           mediaStream |-> closure.mediaStream,
                           recordedUrl |-> closure.recordedUrl]]
  ELSE [h EXCEPT !.error = Some("NotSupportedError"), !.call = [pc |-> "idle"]]

\* getUserMedia gave a stream: setMediaStream(stream); setError(null); return stream
requestPermissions_resolve(h, stream) ==
  [h EXCEPT !.mediaStream = Some(stream), !.error = Null,
            !.call = IF @.caller = "startRecording"
                     THEN [@ EXCEPT !.pc = "stream"] ELSE [pc |-> "idle"]]

\* getUserMedia threw: setError(err); return null, on which startRecording returns
requestPermissions_reject(h, err) ==
  [h EXCEPT !.error = Some(err), !.call = [pc |-> "idle"]]

\* startRecording from `// Reset state` to its end
startRecording_record(h, closure, supported) ==
  LET reset == [h EXCEPT !.mediaChunksRef = 0, !.mediaBlobs = 0, !.recordedBlob = Null,
                         !.recordedUrl = IF closure.recordedUrl # Null THEN Null ELSE @,
                         !.call = [pc |-> "idle"]]
  IN IF ~supported
     THEN [reset EXCEPT !.error = Some("MediaRecorder API is not supported in this browser")]
     ELSE IF closure.mediaStream = Null
     THEN [reset EXCEPT !.error = Some("No media stream available")]
     ELSE [reset EXCEPT !.recorder = [state |-> "recording", events |-> <<"start">>],
                        !.mediaRecorderRef = Some("recorder")]

\* startRecording up to its first await, or to its end when it has a stream
startRecording(h, closure, mediaDevices, supported) ==
  IF closure.mediaStream = Null
  THEN requestPermissions_begin(h, closure, "startRecording", mediaDevices)
  ELSE startRecording_record(h, closure, supported)

\* MediaRecorder.stop(), pause() and resume(): the state attribute changes
\* at once and the event is queued
MediaRecorder_stop(recorder) ==
  IF recorder.state \in {"recording", "paused"}
  THEN [state |-> "inactive", events |-> Append(recorder.events, "stop")]
  ELSE recorder

MediaRecorder_pause(recorder) ==
  IF recorder.state = "recording"
  THEN [state |-> "paused", events |-> Append(recorder.events, "pause")]
  ELSE recorder

MediaRecorder_resume(recorder) ==
  IF recorder.state = "paused"
  THEN [state |-> "recording", events |-> Append(recorder.events, "resume")]
  ELSE recorder

stopRecording(h, closure) ==
  IF h.mediaRecorderRef # Null /\ closure.recordingState # "inactive"
  THEN [h EXCEPT !.recorder = MediaRecorder_stop(@)] ELSE h

pauseRecording(h, closure) ==
  IF h.mediaRecorderRef # Null /\ closure.recordingState = "recording"
  THEN [h EXCEPT !.recorder = MediaRecorder_pause(@)] ELSE h

resumeRecording(h, closure) ==
  IF h.mediaRecorderRef # Null /\ closure.recordingState = "paused"
  THEN [h EXCEPT !.recorder = MediaRecorder_resume(@)] ELSE h

\* the listeners startRecording adds to the recorder
onDataAvailable(h, size) ==
  IF size > 0
  THEN [h EXCEPT !.mediaChunksRef = @ + 1, !.mediaBlobs = @ + 1]
  ELSE h

onStart(h) == [h EXCEPT !.recordingState = "recording", !.error = Null]

onResume(h) == [h EXCEPT !.recordingState = "recording"]

onPause(h) == [h EXCEPT !.recordingState = "paused"]

onStop(h) ==
  IF h.mediaChunksRef = 0
  THEN [h EXCEPT !.recordingState = "inactive"]
  ELSE [h EXCEPT !.recordingState = "inactive",
                 !.recordedBlob = Some(h.mediaChunksRef),
                 !.recordedUrl = Some("blob:")]

onError(h) == [h EXCEPT !.error = Some("Error occurred during recording")]

Dispatched(h) == [h EXCEPT !.recorder.events = Tail(@)]

Rendering(h) ==
  [mediaStream |-> h.mediaStream, recordingState |-> h.recordingState,
   recordedUrl |-> h.recordedUrl]

\* React renders the component again after a state change
Render ==
  /\ hook.rendered # Rendering(hook)
  /\ hook' = [hook EXCEPT !.rendered = Rendering(hook)]
  /\ UNCHANGED <<storage, issued, inflight>>

\* the component calls a function of the last render; it starts a recording
\* only while none is under way and no call is in flight
Hook_startRecording ==
  \E mediaDevices \in BOOLEAN, supported \in BOOLEAN :
    /\ hook.call = [pc |-> "idle"]
    /\ hook.recorder.state \in {"none", "inactive"} /\ hook.recorder.events = <<>>
    /\ hook' = startRecording(hook, hook.rendered, mediaDevices, supported)
    /\ UNCHANGED <<storage, issued, inflight>>

Hook_requestPermissions ==
  \E mediaDevices \in BOOLEAN :
    /\ hook.call = [pc |-> "idle"]
    /\ hook.mediaStream = Null
    /\ hook' = requestPermissions_begin(hook, hook.rendered, "component", mediaDevices)
    /\ UNCHANGED <<storage, issued, inflight>>

Hook_getUserMedia_resolve ==
  /\ hook.call.pc = "getUserMedia"
  /\ hook' = requestPermissions_resolve(hook, "stream")
  /\ UNCHANGED <<storage, issued, inflight>>

Hook_getUserMedia_reject ==
  \E err \in {"NotAllowedError", "NotFoundError"} :
    /\ hook.call.pc = "getUserMedia"
    /\ hook' = requestPermissions_reject(hook, err)
    /\ UNCHANGED <<storage, issued, inflight>>

\* startRecording goes on after `await requestPermissions()` returned a stream
Hook_startRecording_resume ==
  \E supported \in BOOLEAN :
    /\ hook.call.pc = "stream"
    /\ hook' = startRecording_record(hook, hook.call, supported)
    /\ UNCHANGED <<storage, issued, inflight>>

Hook_stopRecording ==
  /\ hook' = stopRecording(hook, hook.rendered)
  /\ UNCHANGED <<storage, issued, inflight>>

Hook_pauseRecording ==
  /\ hook' = pauseRecording(hook, hook.rendered)
  /\ UNCHANGED <<storage, issued, inflight>>

Hook_resumeRecording ==
  /\ hook' = resumeRecording(hook, hook.rendered)
  /\ UNCHANGED <<storage, issued, inflight>>

\* the recorder hands over a chunk, every second while it records
Recorder_dataavailable ==
  \E size \in {0, 1} :
    /\ hook.recorder.state = "recording"
    /\ hook.mediaChunksRef < MaxChunks
    /\ hook' = onDataAvailable(hook, size)
    /\ UNCHANGED <<storage, issued, inflight>>

NextEvent(type) == hook.recorder.events # <<>> /\ Head(hook.recorder.events) = type

Recorder_start ==
  /\ NextEvent("start")
  /\ hook' = onStart(Dispatched(hook))
  /\ UNCHANGED <<storage, issued, inflight>>

Recorder_resume ==
  /\ NextEvent("resume")
  /\ hook' = onResume(Dispatched(hook))
  /\ UNCHANGED <<storage, issued, inflight>>

Recorder_pause ==
  /\ NextEvent("pause")
  /\ hook' = onPause(Dispatched(hook))
  /\ UNCHANGED <<storage, issued, inflight>>

Recorder_stop ==
  /\ NextEvent("stop")
  /\ hook' = onStop(Dispatched(hook))
  /\ UNCHANGED <<storage, issued, inflight>>

\* the recording fails: the recorder becomes inactive and its error and stop
\* events are fired
Recorder_error ==
  /\ hook.recorder.state \in {"recording", "paused"}
  /\ hook.recorder.events = <<>>
  /\ hook' = onError([hook EXCEPT !.recorder = [state |-> "inactive", events |-> <<"stop">>]])
  /\ UNCHANGED <<storage, issued, inflight>>

HookNext ==
  \/ Render
  \/ Hook_startRecording
  \/ Hook_requestPermissions
  \/ Hook_getUserMedia_resolve
  \/ Hook_getUserMedia_reject
  \/ Hook_startRecording_resume
  \/ Hook_stopRecording
  \/ Hook_pauseRecording
  \/ Hook_resumeRecording
  \/ Recorder_dataavailable
  \/ Recorder_start
  \/ Recorder_resume
  \/ Recorder_pause
  \/ Recorder_stop
  \/ Recorder_error

HookSpec == Init /\ [][HookNext]_vars

(***************************************************************************)
(* Reading the state.                                                      *)
(***************************************************************************)
StoredEntries == MapValues(storage.entries)
StoredSchedules == MapValues(storage.schedules)
SeqRange(seq) == {seq[i] : i \in 1..Len(seq)}
SchedulesOf(this, entryId) ==
  {s \in SeqRange(MapValues(this.schedules)) : s.entryId = entryId}

(***************************************************************************)
(* C1 (I2).  In every reachable state, for every stored Entry e:           *)
(* e.visibility = "scheduled" exactly when some stored Schedule has        *)
(* entryId = e.id.                                                         *)
(***************************************************************************)
C1_VisibilityIffSchedule ==
  \A e \in SeqRange(StoredEntries) :
    (e.visibility = "scheduled") <=> (SchedulesOf(storage, e.id) # {})

(***************************************************************************)
(* C2 (I1).  In every reachable state no two stored Schedules share an     *)
(* entryId.                                                                *)
(***************************************************************************)
C2_AtMostOneSchedulePerEntry ==
  \A i, j \in 1..Len(StoredSchedules) :
    StoredSchedules[i].entryId = StoredSchedules[j].entryId => i = j

(***************************************************************************)
(* C3 (P1).  For each record type the ids returned by successive create    *)
(* calls start at 1 and are strictly increasing, so none is returned       *)
(* twice, whatever deletes happen in between.                              *)
(***************************************************************************)
C3_IdsStrictlyIncreasing ==
  \A t \in DOMAIN issued :
    /\ issued[t] # <<>> => issued[t][1] = 1
    /\ \A i, j \in 1..Len(issued[t]) : i < j => issued[t][i] < issued[t][j]

\* a second Entry was created after the first one was deleted
C3_Witness ==
  /\ issued.Entry = <<1, 2>>
  /\ getEntryById(storage, 1) = Undefined
  /\ getEntryById(storage, 2) # Undefined
  /\ Len(issued.Schedule) = 2
  /\ getScheduleById(storage, 1) = Undefined

(***************************************************************************)
(* C4 (P2).  For every stored Entry e with visibility "private", after     *)
(* createSchedule with entryId = e.id, getEntryById(e.id) is e with        *)
(* visibility "scheduled" and every other field as before.                 *)
(***************************************************************************)
C4_CreateScheduleSetsScheduled ==
  \A e \in SeqRange(StoredEntries) :
    e.visibility = "private" =>
      \A insertSchedule \in InsertSchedules, now \in Times :
        insertSchedule.entryId = e.id =>
          getEntryById(createSchedule(storage, insertSchedule, now).this, e.id)
            = [e EXCEPT !.visibility = "scheduled"]

(***************************************************************************)
(* C5 (P3).  For every stored Schedule s whose entryId names a stored      *)
(* Entry, after deleteSchedule(s.id) that Entry has visibility "private"   *)
(* and s is not in the store.                                              *)
(***************************************************************************)
C5_DeleteScheduleSetsPrivate ==
  \A s \in SeqRange(StoredSchedules) :
    getEntryById(storage, s.entryId) # Undefined =>
      LET after == deleteSchedule(storage, s.id).this
      IN /\ getEntryById(after, s.entryId).visibility = "private"
         /\ s \notin SeqRange(MapValues(after.schedules))

(***************************************************************************)
(* C6.  After a deleteSchedule that succeeds on a Schedule attached to a   *)
(* stored Entry e of user u, getScheduledEntries(u) does not contain e.    *)
(***************************************************************************)
C6_DeletedScheduleLeavesScheduledEntries ==
  \A id \in MapKeys(storage.schedules) :
    LET s == getScheduleById(storage, id)
        e == getEntryById(storage, s.entryId)
        r == deleteSchedule(storage, id)
    IN (e # Undefined /\ r.ret) =>
         \A v \in SeqRange(getScheduledEntries(r.this, e.userId)) : v.id # e.id

(***************************************************************************)
(* C7 (I4, P4).  After deleteEntry(id) the store holds no Schedule whose   *)
(* entryId = id: every Schedule that pointed at the entry is absent from   *)
(* getScheduleById.                                                        *)
(***************************************************************************)
C7_DeleteEntryCascades ==
  \A id \in EntryIdInputs :
    LET after == deleteEntry(storage, id).this
    IN /\ SchedulesOf(after, id) = {}
       /\ \A k \in MapKeys(storage.schedules) :
            getScheduleById(storage, k).entryId = id =>
              getScheduleById(after, k) = Undefined

(***************************************************************************)
(* C8 (P5).  Each delete returns true exactly when a record of its type    *)
(* was stored under the id, the record is gone afterwards, and a second    *)
(* delete of the same id right after returns false.                        *)
(***************************************************************************)
C8_DeleteReturnsExistence ==
  /\ \A id \in CategoryIdInputs :
       LET first == deleteCategory(storage, id)
           second == deleteCategory(first.this, id)
       IN /\ first.ret = (getCategoryById(storage, id) # Undefined)
          /\ getCategoryById(first.this, id) = Undefined
          /\ second.ret = FALSE
  /\ \A id \in EntryIdInputs :
       LET first == deleteEntry(storage, id)
           second == deleteEntry(first.this, id)
       IN /\ first.ret = (getEntryById(storage, id) # Undefined)
          /\ getEntryById(first.this, id) = Undefined
          /\ second.ret = FALSE
  /\ \A id \in ContactIdInputs :
       LET first == deleteContact(storage, id)
           second == deleteContact(first.this, id)
       IN /\ first.ret = (getContactById(storage, id) # Undefined)
          /\ getContactById(first.this, id) = Undefined
          /\ second.ret = FALSE
  /\ \A id \in ScheduleIdInputs :
       LET first == deleteSchedule(storage, id)
           second == deleteSchedule(first.this, id)
       IN /\ first.ret = (getScheduleById(storage, id) # Undefined)
          /\ getScheduleById(first.this, id) = Undefined
          /\ second.ret = FALSE

\* one record of each type has been created and deleted again
C8_Witness ==
  /\ storage.categoryIdCounter > MaxCategories
  /\ getCategoryById(storage, MaxCategories) = Undefined
  /\ storage.entryIdCounter > 1 /\ getEntryById(storage, 1) = Undefined
  /\ storage.contactIdCounter > MaxContacts
  /\ getContactById(storage, MaxContacts) = Undefined
  /\ storage.scheduleIdCounter > 2
  /\ getScheduleById(storage, 1) = Undefined
  /\ getScheduleById(storage, 2) # Undefined

(***************************************************************************)
(* C9 (P6).  For every userId: each record of getScheduledEntries has      *)
(* visibility "scheduled" and a schedule; each record of                   *)
(* getEntriesWithSchedules that getScheduledEntries does not return has    *)
(* no schedule.                                                            *)
(***************************************************************************)
UserIds == {1, 2}

C9_ComposerAgreement ==
  \A userId \in UserIds :
    LET scheduled == SeqRange(getScheduledEntries(storage, userId))
        all == SeqRange(getEntriesWithSchedules(storage, userId))
    IN /\ \A v \in scheduled : v.visibility = "scheduled" /\ v.schedule # Undefined
       /\ \A v \in all \ scheduled : v.schedule = Undefined

(***************************************************************************)
(* C10 (P7).  deleteCategory leaves every Entry, Schedule and Contact as   *)
(* it was, also the Entries whose categoryId is the deleted id.            *)
(***************************************************************************)
C10_DeleteCategoryDoesNotCascade ==
  \A id \in CategoryIdInputs :
    LET after == deleteCategory(storage, id).this
    IN /\ after.entries = storage.entries
       /\ after.schedules = storage.schedules
       /\ after.contacts = storage.contacts

\* an Entry still carries the id of a Category that was created and deleted
C10_Witness ==
  /\ storage.categoryIdCounter > MaxCategories
  /\ getCategoryById(storage, MaxCategories) = Undefined
  /\ \E e \in SeqRange(StoredEntries) : e.categoryId = Some(MaxCategories)

(***************************************************************************)
(* C11.  Along any sequence of store operations a stored Entry's           *)
(* visibility changes from "private" to "scheduled" only in a step that    *)
(* creates a Schedule for that Entry, from "scheduled" to "private" only   *)
(* in a step that deletes a Schedule of that Entry, and in no other way.   *)
(***************************************************************************)
C11_VisibilityChangesOnlyWithSchedules ==
  [][\A k \in MapKeys(storage.entries) \cap MapKeys(storage'.entries) :
       LET before == MapGet(storage.entries, k)
           after == MapGet(storage'.entries, k)
           created == {j \in MapKeys(storage'.schedules) \ MapKeys(storage.schedules) :
                         MapGet(storage'.schedules, j).entryId = k}
           deleted == {j \in MapKeys(storage.schedules) \ MapKeys(storage'.schedules) :
                         MapGet(storage.schedules, j).entryId = k}
       IN before.visibility # after.visibility =>
            \/ /\ before.visibility = "private" /\ after.visibility = "scheduled"
               /\ created # {}
            \/ /\ before.visibility = "scheduled" /\ after.visibility = "private"
               /\ deleted # {}
    ]_vars

(***************************************************************************)
(* C12.  The id, type, userId and createdAt that createEntry gave an Entry *)
(* are the same in every later state in which the Entry is stored.         *)
(***************************************************************************)
C12_ImmutableEntryFields ==
  [][\A k \in MapKeys(storage.entries) \cap MapKeys(storage'.entries) :
       LET before == MapGet(storage.entries, k)
           after == MapGet(storage'.entries, k)
       IN /\ after.id = before.id
          /\ after.type = before.type
          /\ after.userId = before.userId
          /\ after.createdAt = before.createdAt
    ]_vars

(***************************************************************************)
(* C13.  updateEntry, updateContact and updateSchedule called with         *)
(* (id, partial): when no record of the type is stored under the id the    *)
(* call returns undefined and leaves the whole store as it was; otherwise  *)
(* the stored record afterwards has the partial's value for every field of *)
(* the partial and its previous value for every other field, the returned  *)
(* record is the stored one, and no other record of the type changes.      *)
(***************************************************************************)
C13_UpdateMergesPartial ==
  LET Merged(mapBefore, mapAfter, id, partial, ret) ==
        LET before == MapGet(mapBefore, id)
            after == MapGet(mapAfter, id)
        IN /\ DOMAIN after = (DOMAIN before) \cup (DOMAIN partial)
           /\ \A f \in DOMAIN partial : after[f] = partial[f]
           /\ \A f \in (DOMAIN before) \ (DOMAIN partial) : after[f] = before[f]
           /\ ret = after
           /\ MapKeys(mapAfter) = MapKeys(mapBefore)
           /\ \A k \in MapKeys(mapBefore) \ {id} :
                MapGet(mapAfter, k) = MapGet(mapBefore, k)
  IN /\ \A id \in EntryIdInputs, partial \in EntryPartials :
          LET r == updateEntry(storage, id, partial)
          IN IF getEntryById(storage, id) = Undefined
             THEN r.ret = Undefined /\ r.this = storage
             ELSE Merged(storage.entries, r.this.entries, id, partial, r.ret)
     /\ \A id \in ContactIdInputs, partial \in ContactPartials :
          LET r == updateContact(storage, id, partial)
          IN IF getContactById(storage, id) = Undefined
             THEN r.ret = Undefined /\ r.this = storage
             ELSE Merged(storage.contacts, r.this.contacts, id, partial, r.ret)
     /\ \A id \in ScheduleIdInputs, partial \in SchedulePartials :
          LET r == updateSchedule(storage, id, partial)
          IN IF getScheduleById(storage, id) = Undefined
             THEN r.ret = Undefined /\ r.this = storage
             ELSE Merged(storage.schedules, r.this.schedules, id, partial, r.ret)

\* one Entry of two, a Contact and one Schedule of two have been updated
C13_Witness ==
  /\ Len(StoredEntries) = 2
  /\ \E e \in SeqRange(StoredEntries) : e.title = "Edited" /\ e.type = "video"
  /\ \E e \in SeqRange(StoredEntries) : e.title # "Edited"
  /\ getContactById(storage, MaxContacts) # Undefined
  /\ getContactById(storage, MaxContacts).name = "Mum"
  /\ Len(StoredSchedules) = 2
  /\ \E s \in SeqRange(StoredSchedules) : s.status = "sent"
  /\ \E s \in SeqRange(StoredSchedules) : s.status = "pending"

(***************************************************************************)
(* C14.  getCategories(u), getEntries(u) and getContacts(u) return exactly *)
(* the stored records with userId = u in the order their create calls      *)
(* were made, updates moving no record; getEntriesByType(u, t) and         *)
(* getEntriesByCategory(u, c) are getEntries(u) filtered by type = t and   *)
(* by categoryId = c, in the same order.                                   *)
(***************************************************************************)
C14_ListsInCreationOrder ==
  LET InCreationOrder(m, created, u) ==
        LET ids == SelectSeq(created,
                             LAMBDA k : MapHas(m, k) /\ MapGet(m, k).userId = u)
        IN [i \in 1..Len(ids) |-> MapGet(m, ids[i])]
  IN \A u \in UserIds :
       /\ getCategories(storage, u)
            = InCreationOrder(storage.categories, issued.Category, u)
       /\ getEntries(storage, u)
            = InCreationOrder(storage.entries, issued.Entry, u)
       /\ getContacts(storage, u)
            = InCreationOrder(storage.contacts, issued.Contact, u)
       /\ \A t \in {"text", "audio", "video", "image"} :
            getEntriesByType(storage, u, t)
              = SelectSeq(getEntries(storage, u), LAMBDA e : e.type = t)
       /\ \A c \in 1..(MaxCategories + 1) :
            getEntriesByCategory(storage, u, c)
              = SelectSeq(getEntries(storage, u), LAMBDA e : e.categoryId = Some(c))

\* the older of two Entries of one user has been updated, a Contact too, and
\* records of another user sit among them
C14_Witness ==
  /\ Len(getEntries(storage, 1)) = 2
  /\ getEntries(storage, 1)[1].title = "Edited"
  /\ getEntries(storage, 1)[2].title = "Hi"
  /\ getEntriesByType(storage, 1, "video") # <<>>
  /\ getCategories(storage, 2) # <<>>
  /\ Len(getContacts(storage, 1)) = 3
  /\ getContacts(storage, 2) # <<>>
  /\ getContacts(storage, 2)[1].name = "Mum"

C16_CreateEntryDefaults ==
  \A insertEntry \in InsertEntries \cup {[title |-> "Bare", type |-> "image"]},
     now \in Times :
    LET r == createEntry(storage, insertEntry, now)
        entry == r.ret
    IN /\ entry.id = storage.entryIdCounter
       /\ entry.id = Len(issued.Entry) + 1
       /\ storage = constructor.this => entry.id = 1
       /\ getEntryById(r.this, entry.id) = entry
       /\ r.this.entryIdCounter = entry.id + 1
       /\ "visibility" \notin DOMAIN insertEntry => entry.visibility = "private"
       /\ \A f \in {"content", "mediaUrl", "categoryId", "metadata"} \ DOMAIN insertEntry :
            entry[f] = Null
       /\ entry.createdAt = now
       /\ entry.title = insertEntry.title /\ entry.type = insertEntry.type

\* the first createEntry call, {title: "Hi", type: "text", content: "hello"},
\* has stored Entry 1 with its defaults
C16_Witness ==
  /\ issued.Entry = <<1>>
  /\ getEntryById(storage, 1) # Undefined
  /\ getEntryById(storage, 1)
       = [id |-> 1, userId |-> 1, title |-> "Hi", content |-> Some("hello"),
          mediaUrl |-> Null, type |-> "text", visibility |-> "private",
          categoryId |-> Null, metadata |-> Null, createdAt |-> 10]

(***************************************************************************)
(* C17.  Every stored Schedule has status "pending" in every reachable     *)
(* state.                                                                  *)
(***************************************************************************)
C17_StatusAlwaysPending ==
  \A k \in MapKeys(storage.schedules) :
    getScheduleById(storage, k).status = "pending"

(***************************************************************************)
(* C18.  A Schedule that createSchedule stores for an insert without       *)
(* reminderEnabled (no insert of InsertSchedules names the field) has      *)
(* reminderEnabled = false.                                                *)
(***************************************************************************)
C18_ReminderDefaultsToFalse ==
  [][\A k \in MapKeys(storage'.schedules) \ MapKeys(storage.schedules) :
       LET schedule == getScheduleById(storage', k)
       IN /\ "reminderEnabled" \in DOMAIN schedule
          /\ schedule.reminderEnabled = FALSE
    ]_vars

(***************************************************************************)
(* C19.  createSchedule whose entryId names no stored Entry still stores   *)
(* and returns the new Schedule under the next Schedule id, which it       *)
(* consumes, and changes no Entry.                                         *)
(***************************************************************************)
C19_OrphanScheduleIsCreated ==
  \A insertSchedule \in InsertSchedules
                       \cup {[entryId |-> MaxEntries + 1, contactId |-> MaxContacts + 1,
                              deliveryDate |-> d] : d \in DeliveryDates},
     now \in Times :
    getEntryById(storage, insertSchedule.entryId) = Undefined =>
      LET r == createSchedule(storage, insertSchedule, now)
      IN /\ getScheduleById(r.this, storage.scheduleIdCounter) = r.ret
         /\ r.ret.id = storage.scheduleIdCounter
         /\ r.ret.entryId = insertSchedule.entryId
         /\ r.this.scheduleIdCounter = storage.scheduleIdCounter + 1
         /\ MapKeys(r.this.schedules)
              = MapKeys(storage.schedules) \cup {storage.scheduleIdCounter}
         /\ r.this.entries = storage.entries

\* a Schedule for Entry 1 is stored although no Entry was ever created
C19_Witness ==
  /\ issued.Entry = <<>>
  /\ issued.Schedule = <<1>>
  /\ getScheduleById(storage, 1) # Undefined
  /\ getScheduleById(storage, 1).entryId = 1
  /\ storage.scheduleIdCounter = 2

(***************************************************************************)
(* C20.  getSchedulesByEntryId(e) is undefined when no stored Schedule has *)
(* entryId = e, and otherwise the Schedule created earliest among those    *)
(* that now have entryId = e, also after updateSchedule calls.             *)
(***************************************************************************)
C20_FirstCreatedScheduleOfEntry ==
  \A e \in EntryIdInputs :
    LET matching == SelectSeq(issued.Schedule,
                              LAMBDA k : /\ MapHas(storage.schedules, k)
                                         /\ getScheduleById(storage, k).entryId = e)
        found == getSchedulesByEntryId(storage, e)
    IN IF matching = <<>> THEN found = Undefined
       ELSE found = getScheduleById(storage, matching[1])

\* two Schedules have the same entryId and the older one has been updated
C20_Witness ==
  /\ issued.Schedule = <<1, 2>>
  /\ getScheduleById(storage, 1) # Undefined
  /\ getScheduleById(storage, 2) # Undefined
  /\ getScheduleById(storage, 1).entryId = getScheduleById(storage, 2).entryId
  /\ getScheduleById(storage, 1).status = "sent"
  /\ getScheduleById(storage, 2).status = "pending"
  /\ getSchedulesByEntryId(storage, getScheduleById(storage, 2).entryId)
       = getScheduleById(storage, 1)

(***************************************************************************)
(* C21.  The newly constructed store holds exactly one User (id 1,         *)
(* username "demo"), exactly three Categories, all of user 1, which        *)
(* getCategories(1) returns as "Personal", "Work", "Ideas", exactly three  *)
(* Contacts, all of user 1, and no Entries or Schedules.                   *)
(***************************************************************************)
C21_SeededStore ==
  (storage = constructor.this /\ issued = constructor.issued) =>
    /\ Len(storage.users) = 1
    /\ MapHas(storage.users, 1)
    /\ MapGet(storage.users, 1).id = 1
    /\ MapGet(storage.users, 1).username = "demo"
    /\ Len(storage.categories) = 3
    /\ Len(getCategories(storage, 1)) = 3
    /\ [i \in 1..3 |-> getCategories(storage, 1)[i].name]
         = <<"Personal", "Work", "Ideas">>
    /\ Len(storage.contacts) = 3
    /\ Len(getContacts(storage, 1)) = 3
    /\ storage.entries = MapNew
    /\ storage.schedules = MapNew

\* the store as the constructor leaves it, before any call
C21_Witness ==
  /\ storage = constructor.this
  /\ issued.User = <<1>> /\ issued.Category = <<1, 2, 3>>
  /\ issued.Contact = <<1, 2, 3>>
  /\ storage.entryIdCounter = 1 /\ storage.scheduleIdCounter = 1

(***************************************************************************)
(* C26.  In every reachable state each record stored in the entries,       *)
(* contacts and schedules maps has an id field equal to the map key it is  *)
(* stored under.                                                           *)
(***************************************************************************)
C26_IdEqualsKey ==
  /\ \A k \in MapKeys(storage.entries) : getEntryById(storage, k).id = k
  /\ \A k \in MapKeys(storage.contacts) : getContactById(storage, k).id = k
  /\ \A k \in MapKeys(storage.schedules) : getScheduleById(storage, k).id = k

(***************************************************************************)
(* C27.  A delete call that returns false leaves the whole store as it     *)
(* was: all five maps and all id counters.                                 *)
(***************************************************************************)
C27_FailedDeleteChangesNothing ==
  /\ \A id \in CategoryIdInputs :
       LET r == deleteCategory(storage, id) IN r.ret = FALSE => r.this = storage
  /\ \A id \in EntryIdInputs :
       LET r == deleteEntry(storage, id) IN r.ret = FALSE => r.this = storage
  /\ \A id \in ContactIdInputs :
       LET r == deleteContact(storage, id) IN r.ret = FALSE => r.this = storage
  /\ \A id \in ScheduleIdInputs :
       LET r == deleteSchedule(storage, id) IN r.ret = FALSE => r.this = storage

(***************************************************************************)
(* C28.  getSchedules(u) returns exactly the stored Schedules whose        *)
(* entryId is the id of a stored Entry with userId = u, in the order the   *)
(* Schedules were created; a Schedule whose entryId is the id of no stored *)
(* Entry is returned for no user.                                          *)
(***************************************************************************)
C28_SchedulesOfUsersEntries ==
  LET OwnedBy(schedule, u) ==
        \E k \in MapKeys(storage.entries) :
          /\ getEntryById(storage, k).userId = u
          /\ getEntryById(storage, k).id = schedule.entryId
      Expected(u) ==
        LET ids == SelectSeq(issued.Schedule,
                             LAMBDA k : /\ MapHas(storage.schedules, k)
                                        /\ OwnedBy(getScheduleById(storage, k), u))
        IN [i \in 1..Len(ids) |-> getScheduleById(storage, ids[i])]
  IN /\ \A u \in UserIds : getSchedules(storage, u) = Expected(u)
     /\ \A k \in MapKeys(storage.schedules) :
          LET schedule == getScheduleById(storage, k)
          IN (\A j \in MapKeys(storage.entries) :
                getEntryById(storage, j).id # schedule.entryId) =>
               \A u \in UserIds :
                 \A i \in 1..Len(getSchedules(storage, u)) :
                   getSchedules(storage, u)[i] # schedule

\* one Schedule belongs to an Entry of user 1, another names no stored Entry
C28_Witness ==
  /\ Len(StoredSchedules) = 2
  /\ getEntryById(storage, 1) # Undefined
  /\ getEntryById(storage, 1).id = 1
  /\ getEntryById(storage, 1).userId = 1
  /\ getEntryById(storage, 2) = Undefined
  /\ getSchedules(storage, 1) = <<getScheduleById(storage, 1)>>
  /\ getScheduleById(storage, 2).entryId = 2
  /\ getSchedules(storage, 2) = <<>>

(***************************************************************************)
(* C22.  Every id-addressed route answers 400, without calling the store,  *)
(* when the id is not a valid integer; 404 exactly when the id is valid    *)
(* and the store reports no such record; otherwise 204 for DELETE and 200  *)
(* with the record for GET and PATCH.                                      *)
(***************************************************************************)
C22_IdRouteStatus ==
  LET ValidInteger(param) ==
        LET digits == IF param # <<>> /\ Head(param) = "-" THEN Tail(param) ELSE param
        IN digits # <<>> /\ \A i \in 1..Len(digits) : IsDigit(digits[i])
      Rejected(r) == r.res.status = 400 /\ r.calls = <<>> /\ r.this = storage
      Deletes(param, r, found) ==
        IF ~ValidInteger(param) THEN Rejected(r)
        ELSE IF ~found THEN r.res.status = 404
        ELSE r.res.status = 204
      Returns(param, r, record) ==
        IF ~ValidInteger(param) THEN Rejected(r)
        ELSE IF record = Undefined THEN r.res.status = 404
        ELSE r.res.status = 200 /\ r.res.json = record
  IN /\ \A param \in CategoryIdParams :
          Deletes(param, router_delete_categories(storage, param),
                  getCategoryById(storage, parseInt(param)[1]) # Undefined)
     /\ \A param \in EntryIdParams :
          /\ Returns(param, router_get_entry(storage, param),
                     getEntryById(storage, parseInt(param)[1]))
          /\ Deletes(param, router_delete_entries(storage, param),
                     getEntryById(storage, parseInt(param)[1]) # Undefined)
          /\ \A body \in PatchEntryBodies :
               LET r == router_patch_entries(storage, param, body)
               IN Returns(param, r, getEntryById(r.this, parseInt(param)[1]))
     /\ \A param \in ContactIdParams :
          /\ Deletes(param, router_delete_contacts(storage, param),
                     getContactById(storage, parseInt(param)[1]) # Undefined)
          /\ \A body \in PatchContactBodies :
               LET r == router_patch_contacts(storage, param, body)
               IN Returns(param, r, getContactById(r.this, parseInt(param)[1]))
     /\ \A param \in ScheduleIdParams :
          /\ Deletes(param, router_delete_schedules(storage, param),
                     getScheduleById(storage, parseInt(param)[1]) # Undefined)
          /\ \A body \in PatchScheduleBodies :
               LET r == router_patch_schedules(storage, param, body)
               IN Returns(param, r, getScheduleById(r.this, parseInt(param)[1]))

(***************************************************************************)
(* C23.  A POST to /categories, /entries, /contacts or /schedules whose    *)
(* body fails the insert schema answers 400 and leaves the store, id       *)
(* counters included, as it was; a POST whose body passes answers 201 with *)
(* the created record and adds exactly one record of that type.            *)
(***************************************************************************)
C23_PostValidates ==
  LET Added(before, after, record) ==
        LET new == MapKeys(after) \ MapKeys(before)
        IN /\ Cardinality(new) = 1
           /\ Len(after) = Len(before) + 1
           /\ \A k \in new : MapGet(after, k) = record
           /\ \A k \in MapKeys(before) : MapGet(after, k) = MapGet(before, k)
      Posted(r, valid, before, after) ==
        IF ~valid THEN r.res.status = 400 /\ r.this = storage
        ELSE r.res.status = 201 /\ Added(before, after, r.res.json)
  IN /\ \A body \in PostCategoryBodies :
          LET r == router_post_categories(storage, body)
          IN Posted(r, insertCategorySchema(Spread(body, [userId |-> 1])).success,
                    storage.categories, r.this.categories)
     /\ \A body \in PostEntryBodies, now \in Times :
          LET r == router_post_entries(storage, body, now)
          IN Posted(r, insertEntrySchema(Spread(body, [userId |-> 1])).success,
                    storage.entries, r.this.entries)
     /\ \A body \in PostContactBodies :
          LET r == router_post_contacts(storage, body)
          IN Posted(r, insertContactSchema(Spread(body, [userId |-> 1])).success,
                    storage.contacts, r.this.contacts)
     /\ \A body \in PostScheduleBodies, now \in Times :
          LET r == router_post_schedules(storage, body, now)
          IN Posted(r, insertScheduleSchema(body).success,
                    storage.schedules, r.this.schedules)

\* one record of each type has been created through its POST route
C23_Witness ==
  /\ issued.Category = <<1, 2, 3, 4>>
  /\ getCategoryById(storage, 4) = [id |-> 4, userId |-> 1, name |-> "Travel"]
  /\ issued.Entry = <<1>>
  /\ getEntryById(storage, 1) # Undefined
  /\ getEntryById(storage, 1).title = "Memo"
  /\ getEntryById(storage, 1).id = 1
  /\ issued.Contact = <<1, 2, 3, 4>>
  /\ getContactById(storage, 4) # Undefined
  /\ issued.Schedule = <<1>>
  /\ getScheduleById(storage, 1) # Undefined
  /\ getScheduleById(storage, 1).status = "pending"

(***************************************************************************)
(* C24.  Under any sequence of API requests every stored Entry, Category   *)
(* and Contact has userId = 1, and so has every Entry that GET             *)
(* /entries/:id returns.                                                   *)
(***************************************************************************)
C24_ScopedToUserOne ==
  /\ \A k \in MapKeys(storage.entries) : getEntryById(storage, k).userId = 1
  /\ \A k \in MapKeys(storage.categories) : getCategoryById(storage, k).userId = 1
  /\ \A k \in MapKeys(storage.contacts) : getContactById(storage, k).userId = 1
  /\ \A param \in EntryIdParams :
       LET r == router_get_entry(storage, param)
       IN r.res.status = 200 => r.res.json.userId = 1

(***************************************************************************)
(* C29.  GET /entries applies at most one filter: with a non-empty type    *)
(* parameter the result is getEntriesByType(1, type), whatever categoryId  *)
(* says; otherwise, when categoryId parses to a non-zero integer, it is    *)
(* getEntriesByCategory(1, categoryId); otherwise it is getEntries(1).     *)
(***************************************************************************)
C29_EntriesFilter ==
  \A query \in EntryQueries :
    LET r == router_get_entries(storage, query)
        hasType == "type" \in DOMAIN query /\ query.type # ""
        parsed == IF "categoryId" \in DOMAIN query
                  THEN parseInt(query.categoryId) ELSE NaN
    IN /\ r.res.status = 200
       /\ r.this = storage
       /\ Len(r.calls) = 1
       /\ r.res.json =
            IF hasType THEN getEntriesByType(storage, 1, query.type)
            ELSE IF parsed # NaN /\ parsed[1] # 0
                 THEN getEntriesByCategory(storage, 1, parsed[1])
                 ELSE getEntries(storage, 1)

\* a text Entry without category and an audio Entry of category 4 are stored,
\* so that the three lists differ
C29_Witness ==
  /\ Len(getEntries(storage, 1)) = 2
  /\ Len(getEntriesByType(storage, 1, "text")) = 1
  /\ Len(getEntriesByCategory(storage, 1, MaxCategories)) = 1
  /\ getEntriesByType(storage, 1, "text") # getEntriesByCategory(storage, 1, MaxCategories)
  /\ router_get_entries(storage, [type |-> "text", categoryId |-> <<"4">>]).res.json
       = getEntriesByType(storage, 1, "text")

(***************************************************************************)
(* C25.  When the store operations in flight at once have all returned,    *)
(* the store and the value each call returned are those of the same calls  *)
(* made one after the other in some order.                                 *)
(***************************************************************************)
C25_Serializable ==
  AllReturned =>
    \E order \in Orders(Len(inflight.calls)) :
      LET n == Len(inflight.calls)
          run == Serial(inflight.base, [i \in 1..n |-> inflight.calls[order[i]].op])
      IN /\ run.this = storage
         /\ \A i \in 1..n : run.rets[i] = inflight.calls[order[i]].call.ret

(***************************************************************************)
(* C30.  A startRecording call that was made without a media stream and    *)
(* whose permission request gave a stream ends, in a browser that has      *)
(* MediaRecorder, with a MediaRecorder created and recording, and in any   *)
(* browser without the error 'No media stream available'.                  *)
(***************************************************************************)
C30_GrantedCallStartsRecorder ==
  [][(hook.call.pc = "stream" /\ hook'.call.pc = "idle")
       => /\ \/ hook'.mediaRecorderRef # Null /\ hook'.recorder.state = "recording"
             \/ hook'.error = Some("MediaRecorder API is not supported in this browser")
          /\ hook'.error # Some("No media stream available")]_vars

====
